---- MODULE Spec2Model ----
(***************************************************************************)
(* Model of the new-round entry form of GACG-Caddy (components/round/      *)
(* NewRound, shown in the Dashboard modal) and of the score totals it      *)
(* displays.                                                               *)
(*                                                                         *)
(* Encoding of JavaScript values:                                          *)
(*   - a hole's `score` field holds '' or a number: '' is <<>> and the     *)
(*     number n is <<n>>;                                                  *)
(*   - the playerId field holds null or the string a Select option         *)
(*     carries (player.id.toString()): null is "null", the string of id n  *)
(*     is IdString[n].                                                     *)
(***************************************************************************)
EXTENDS Integers, Sequences, FiniteSets, TLC

VARIABLES opened, today, values, errors, playersQuery, holesQuery,
          notifications, mutations, scores, selected

vars == <<opened, today, values, errors, playersQuery, holesQuery,
          notifications, mutations, scores, selected>>

formVars == <<opened, today, values, errors, playersQuery, holesQuery,
              notifications, mutations>>

totalVars == <<scores, selected>>

----------------------------------------------------------------------------
(* Program constants *)

NumHoles == 18
MinScore == 1
MaxScore == 99
FrontNine == 9

(* Bounds of the exploration *)

MaxSubmits == 2
MaxPending == 1
MaxChanged == 2

----------------------------------------------------------------------------
(* Values *)

Holes == 1..NumHoles

TournamentDay == {"friday", "saturday", "sunday", "all"}

EmptyString == <<>>
Num(n) == <<n>>

\* JavaScript Number() of a score field: Number('') is 0, Number(n) is n.
NumberOfScore(v) == IF v = EmptyString THEN 0 ELSE v[1]

\* The players the backend may return: id, division, handicap.
Players ==
  { [id |-> 1, division |-> "a", handicap |-> 10],
    [id |-> 2, division |-> "b", handicap |-> 80] }

PlayerIds == { p.id : p \in Players }

NullId == "null"
IdString == <<"1", "2">>

\* player.id.toString()
toString(id) == IdString[id]

\* JavaScript Number() of the playerId field: Number(null) is 0, the string
\* of an id parses back to the id.
NumberOfId(s) ==
  IF s = NullId THEN 0
  ELSE CHOOSE n \in DOMAIN IdString : IdString[n] = s

NoPlayer == [id |-> 0, division |-> "none", handicap |-> 0]

----------------------------------------------------------------------------
(* utils/holes: score totals *)

RECURSIVE SumSeq(_)
SumSeq(s) == IF s = <<>> THEN 0 ELSE Head(s) + SumSeq(Tail(s))

getOut(holes) == SumSeq(SubSeq(holes, 1, FrontNine))

getIn(holes) == SumSeq(SubSeq(holes, FrontNine + 1, NumHoles))

getGross(holes) == SumSeq(holes)

getNet(holes, handicap) == getGross(holes) - handicap

----------------------------------------------------------------------------
(* NewRound: the form *)

initialValues_short(day) ==
  [ playerId   |-> NullId,
    day        |-> day,
    grossHoles |-> [i \in 1..(NumHoles - 1) |-> [score |-> EmptyString]] ]

\* useForm initialValues; day is getTournamentDay() at mount.
initialValues(day) ==
  [ playerId   |-> NullId,
    day        |-> day,
    grossHoles |-> [i \in Holes |-> [score |-> EmptyString]] ]

NoErrors == [playerId |-> "", grossHoles |-> {}]

\* players = playersQuery.isSuccess ? playersQuery.data : []
players(q) == IF q.status = "success" THEN q.data ELSE {}

\* holes = holesQuery.isSuccess ? holesQuery.data : []  (its length)
holes(q) == IF q.status = "success" THEN q.count ELSE 0

\* validate.playerId
validatePlayerId(value) == IF value # NullId THEN "" ELSE "Player is required"

validateScore_nonNegative(value) == NumberOfScore(value) >= 0

\* validate.grossHoles.score: TRUE when the score is valid
validateScore(value) == NumberOfScore(value) > 0

validate(v) ==
  [ playerId   |-> validatePlayerId(v.playerId),
    grossHoles |-> { i \in DOMAIN v.grossHoles :
                       ~validateScore(v.grossHoles[i].score) } ]

\* players.find((player) => player.id === Number(values.playerId))
findPlayer(v, ps) ==
  IF \E p \in ps : p.id = NumberOfId(v.playerId)
    THEN CHOOSE p \in ps : p.id = NumberOfId(v.playerId)
    ELSE NoPlayer

transformValues(v, ps) ==
  [ player     |-> findPlayer(v, ps),
    day        |-> v.day,
    grossHoles |-> [i \in DOMAIN v.grossHoles |->
                      NumberOfScore(v.grossHoles[i].score)] ]

HoleInput_noMax(raw) ==
  \/ raw = EmptyString
  \/ raw[1] >= MinScore

\* HoleInput: the NumberInput accepts an empty field or an integer within
\* min..max (clampBehavior strict, no negatives, no decimals).
HoleInput(raw) ==
  \/ raw = EmptyString
  \/ (raw[1] >= MinScore /\ raw[1] <= MaxScore)

displayedHandicap_none(player) == 0

\* selectedPlayer ? selectedPlayer.handicap : 0
displayedHandicap(player) == IF player # NoPlayer THEN player.handicap ELSE 0

\* The four totals shown under the hole inputs, each computed from
\* form.getTransformedValues().grossHoles.
OutShown_in(grossHoles) == getIn(grossHoles)

OutShown(grossHoles) == getOut(grossHoles)

GrossShown_out(grossHoles) == getOut(grossHoles)

GrossShown(grossHoles) == getGross(grossHoles)

InShown(grossHoles) == getIn(grossHoles)

NetShown(grossHoles, player) == getNet(grossHoles, displayedHandicap(player))

\* Exploration bound on the score fields: the user fills the holes from the
\* first on with the lowest score; only the hole filled last may hold
\* another score.
WithinScoreBound(g) ==
  \E k \in 0..Len(g) :
    /\ \A i \in (k + 1)..Len(g) : g[i].score = EmptyString
    /\ \A i \in 1..k : g[i].score # EmptyString
    /\ \A i \in 1..(k - 1) : g[i].score = Num(MinScore)

hasPlayer_always(data) == TRUE

\* if (data.player)
hasPlayer(data) == data.player # NoPlayer

\* notifications.loading(message): a new notification, its id is its index.
loading(message) == [kind |-> "loading", message |-> message, updates |-> 0]

\* notifications.updateSuccess / updateFailure
update(ns, id, kind, message) ==
  [ns EXCEPT ![id] = [kind |-> kind, message |-> message, updates |-> @.updates + 1]]

onSuccess_anyResponse(response) ==
  [kind |-> "success", message |-> "Saved round", close |-> TRUE]

\* onSuccess(response): what the handler does with the loading notification
\* and whether it calls closeModal.
onSuccess(response) ==
  IF response = "true"
    THEN [kind |-> "success", message |-> "Saved round", close |-> TRUE]
    ELSE [kind |-> "failure", message |-> "Failed to save round", close |-> FALSE]

onError_closes == [kind |-> "failure", message |-> "Failed to save round", close |-> TRUE]

\* onError()
onError == [kind |-> "failure", message |-> "Failed to save round", close |-> FALSE]

----------------------------------------------------------------------------
(* Dashboard: the modal *)

\* The modal's children are mounted while it is opened: NewRound's form is
\* created with its initial values on each mount.
Mounted == /\ values' = initialValues(today)
           /\ errors' = NoErrors

\* ActionIcon onClick={open}
Open ==
  /\ ~opened
  /\ opened' = TRUE
  /\ Mounted
  /\ UNCHANGED <<today, playersQuery, holesQuery, notifications, mutations, totalVars>>

\* Modal onClose={close}
Close ==
  /\ opened
  /\ opened' = FALSE
  /\ Mounted
  /\ UNCHANGED <<today, playersQuery, holesQuery, notifications, mutations, totalVars>>

----------------------------------------------------------------------------
(* NewRound: the handlers *)

\* DaySelector {...form.getInputProps('day')}
ChangeDay(d) ==
  /\ opened
  /\ values' = [values EXCEPT !.day = d]
  /\ UNCHANGED <<opened, today, errors, playersQuery, holesQuery, notifications,
                 mutations, totalVars>>

\* PlayerSelectByDivision {...form.getInputProps('playerId')}: an option of
\* the loaded players, or null when the selection is cleared.
ChangePlayer(id) ==
  /\ opened
  /\ \/ id = NullId
     \/ \E p \in players(playersQuery) : toString(p.id) = id
  /\ values' = [values EXCEPT !.playerId = id]
  /\ errors' = [errors EXCEPT !.playerId = ""]
  /\ UNCHANGED <<opened, today, playersQuery, holesQuery, notifications,
                 mutations, totalVars>>

\* HoleInput {...form.getInputProps(`grossHoles.${index}.score`)}: one input
\* per hole the holes query returned. An input past the end of grossHoles has
\* no element to write its score into. onChange fires when the input's value
\* changes.
ChangeScore(i, raw) ==
  /\ opened
  /\ i <= holes(holesQuery)
  /\ i <= Len(values.grossHoles) => raw # values.grossHoles[i].score
  /\ IF HoleInput(raw) /\ i <= Len(values.grossHoles)
       THEN /\ values' = [values EXCEPT !.grossHoles[i].score = raw]
            /\ WithinScoreBound(values'.grossHoles)
            /\ errors' = [errors EXCEPT !.grossHoles = @ \ {i}]
       ELSE UNCHANGED <<values, errors>>
  /\ UNCHANGED <<opened, today, playersQuery, holesQuery, notifications,
                 mutations, totalVars>>

\* <form onReset={form.onReset}>, the Clear button
Reset ==
  /\ opened
  /\ values' = initialValues(today)
  /\ errors' = NoErrors
  /\ UNCHANGED <<opened, today, playersQuery, holesQuery, notifications,
                 mutations, totalVars>>

HasErrors(e) == e.playerId # "" \/ e.grossHoles # {}

\* createRoundMutation.mutate(variables, {onSuccess, onError})
mutate(data, notification) ==
  [ variables    |-> [ playerId   |-> data.player.id,
                       day        |-> data.day,
                       grossHoles |-> data.grossHoles ],
    notification |-> notification,
    status       |-> "pending",
    response     |-> "none" ]

\* onSubmit(data)
onSubmit(data) ==
  IF hasPlayer(data)
    THEN /\ notifications' = Append(notifications, loading("Saving round.."))
         /\ mutations' = Append(mutations, mutate(data, Len(notifications) + 1))
         /\ errors' = NoErrors
    ELSE /\ errors' = [playerId |-> "Selected player no longer exists", grossHoles |-> {}]
         /\ UNCHANGED <<notifications, mutations>>

\* <form onSubmit={form.onSubmit((values) => onSubmit(values))}>, the Submit
\* button: validate, then hand the transformed values to onSubmit.
Submit ==
  /\ opened
  /\ IF HasErrors(validate(values))
       THEN /\ errors' = validate(values)
            /\ UNCHANGED <<notifications, mutations>>
       ELSE onSubmit(transformValues(values, players(playersQuery)))
  /\ UNCHANGED <<opened, today, values, playersQuery, holesQuery, totalVars>>

\* A create-round request settles: it resolves with true, resolves with
\* another response, or fails.
Settle(m, outcome) ==
  /\ m \in DOMAIN mutations
  /\ mutations[m].status = "pending"
  /\ LET did == IF outcome = "error" THEN onError ELSE onSuccess(outcome)
     IN  /\ mutations' = [mutations EXCEPT ![m] =
                            [@ EXCEPT !.status = IF outcome = "error" THEN "error" ELSE "success",
                                      !.response = outcome]]
         /\ notifications' = update(notifications, mutations[m].notification,
                                    did.kind, did.message)
         /\ IF did.close /\ opened
              THEN opened' = FALSE /\ Mounted
              ELSE UNCHANGED <<opened, values, errors>>
  /\ UNCHANGED <<today, playersQuery, holesQuery, totalVars>>

Outcomes == {"true", "other", "error"}

----------------------------------------------------------------------------
(* The queries *)

\* usePlayersQuery settles or refetches
PlayersQuery(status, data) ==
  /\ playersQuery' = [status |-> status, data |-> data]
  /\ playersQuery' # playersQuery
  /\ UNCHANGED <<opened, today, values, errors, holesQuery, notifications,
                 mutations, totalVars>>

\* useHolesQuery settles
HolesQuery(status, count) ==
  /\ holesQuery.status = "pending"
  /\ holesQuery' = [status |-> status, count |-> count]
  /\ UNCHANGED <<opened, today, values, errors, playersQuery, notifications,
                 mutations, totalVars>>

----------------------------------------------------------------------------

NoScores == [i \in Holes |-> 0]

\* The state before the modal is first opened. getTournamentDay() gives the
\* day of the session, here a Friday.
Init ==
  /\ opened = FALSE
  /\ today = "friday"
  /\ values = initialValues(today)
  /\ errors = NoErrors
  /\ playersQuery = [status |-> "pending", data |-> {}]
  /\ holesQuery = [status |-> "pending", count |-> 0]
  /\ notifications = <<>>
  /\ mutations = <<>>
  /\ scores = NoScores
  /\ selected = NoPlayer

\* The values a user may try to type into a hole's input.
ScoreInputs == { EmptyString, Num(0), Num(MinScore), Num(MaxScore), Num(MaxScore + 1) }

PlayerOptions == {NullId} \cup { toString(n) : n \in PlayerIds }

\* Saving a round: the queries load the 18 holes and the players, the user
\* enters a round for the day set at mount and submits it, the requests
\* settle.
Next ==
  \/ Open
  \/ Close
  \/ \E id \in {NullId, toString(1)} : ChangePlayer(id)
  \/ \E i \in Holes, raw \in {EmptyString, Num(MinScore)} : ChangeScore(i, raw)
  \/ Reset
  \/ (Len(mutations) < MaxSubmits /\ Submit)
  \/ \E m \in 1..MaxSubmits, outcome \in Outcomes : Settle(m, outcome)
  \/ PlayersQuery("success", Players)
  \/ PlayersQuery("error", {})
  \/ HolesQuery("success", NumHoles)
  \/ HolesQuery("error", 0)

Spec == Init /\ [][Next]_vars

HoleCounts == {NumHoles - 1, NumHoles, NumHoles + 1}

\* Entering a round: the queries load any list of players and 17, 18 or 19
\* holes, the user types any value into any input and submits; the requests
\* issued stay pending.
NextEntry ==
  \/ Open
  \/ Close
  \/ \E id \in PlayerOptions : ChangePlayer(id)
  \/ \E i \in 1..(NumHoles + 1), raw \in ScoreInputs : ChangeScore(i, raw)
  \/ Reset
  \/ (Len(mutations) < MaxPending /\ Submit)
  \/ PlayersQuery("success", Players)
  \/ PlayersQuery("error", {})
  \/ \E n \in HoleCounts : HolesQuery("success", n)
  \/ HolesQuery("error", 0)

SpecEntry == Init /\ [][NextEntry]_vars

\* Selecting a player: the players query loads, fails and refetches any list
\* of players while the user enters a round for any day and submits; the
\* requests issued stay pending.
NextPlayers ==
  \/ Open
  \/ Close
  \/ \E d \in TournamentDay : ChangeDay(d)
  \/ \E id \in PlayerOptions : ChangePlayer(id)
  \/ \E i \in Holes, raw \in {EmptyString, Num(MinScore)} : ChangeScore(i, raw)
  \/ Reset
  \/ (Len(mutations) < MaxPending /\ Submit)
  \/ \E data \in SUBSET Players : PlayersQuery("success", data)
  \/ PlayersQuery("error", {})
  \/ HolesQuery("success", NumHoles)
  \/ HolesQuery("error", 0)

SpecPlayers == Init /\ [][NextPlayers]_vars

----------------------------------------------------------------------------
(* The score totals on their own *)

\* The example round of the specification.
Example == <<4, 5, 3, 4, 5, 4, 3, 5, 4, 4, 4, 5, 3, 4, 5, 4, 3, 4>>

\* The score sequences the exploration starts from: the transformed values of
\* the empty form, the example round, and a round of the highest scores.
Bases ==
  { transformValues(initialValues("friday"), {}).grossHoles,
    Example,
    [i \in Holes |-> MaxScore] }

ScoreValues == {-2, 0, MaxScore}

Changed(a, b) == Cardinality({ i \in Holes : a[i] # b[i] })

InitTotals ==
  /\ opened = FALSE
  /\ today = "friday"
  /\ values = initialValues(today)
  /\ errors = NoErrors
  /\ playersQuery = [status |-> "pending", data |-> {}]
  /\ holesQuery = [status |-> "pending", count |-> 0]
  /\ notifications = <<>>
  /\ mutations = <<>>
  /\ scores \in Bases
  /\ selected = NoPlayer

\* One hole's score changes.
SetScore(i, v) ==
  /\ v # scores[i]
  /\ scores' = [scores EXCEPT ![i] = v]
  /\ \E b \in Bases : Changed(scores', b) <= MaxChanged
  /\ UNCHANGED <<selected, formVars>>

\* Another player, or none, is selected.
SetSelected(p) ==
  /\ p # selected
  /\ selected' = p
  /\ UNCHANGED <<scores, formVars>>

NextTotals ==
  \/ \E i \in Holes, v \in ScoreValues : SetScore(i, v)
  \/ \E p \in Players \cup {NoPlayer} : SetSelected(p)

SpecTotals == InitTotals /\ [][NextTotals]_vars

----------------------------------------------------------------------------
(* Properties *)

Positive(v) == \A i \in DOMAIN v.grossHoles : NumberOfScore(v.grossHoles[i].score) > 0

Issued == Len(mutations') > Len(mutations)

\* C1: a submit with no player selected (playerId null) or with a hole score
\* that is empty, zero or negative issues no create-round request and leaves a
\* validation error; a request is issued only when playerId is non-null and
\* every hole score is > 0.
C1_SubmitBlocked ==
  [][ /\ (Submit /\ (values.playerId = NullId \/ ~Positive(values)))
         => /\ mutations' = mutations
            /\ notifications' = notifications
            /\ HasErrors(errors')
            /\ (values.playerId = NullId => errors'.playerId = "Player is required")
      /\ Issued => (values.playerId # NullId /\ Positive(values)) ]_vars

C1_Witness ==
  /\ opened
  /\ values.playerId # NullId
  /\ ~Positive(values)
  /\ errors.grossHoles # {}
  /\ errors.playerId = ""
  /\ mutations = <<>>

Handicaps == {-3, 0, 1, 10, 36, 80, 2000}

\* C3: getNet is getGross minus the handicap for every handicap, negative when
\* the handicap exceeds the gross total; the net shown with no player selected
\* is the gross total, and with a player selected the gross total minus the
\* player's handicap.
C3_NetIsGrossMinusHandicap ==
  /\ \A h \in Handicaps :
       /\ getNet(scores, h) = getGross(scores) - h
       /\ h > getGross(scores) => getNet(scores, h) < 0
  /\ selected = NoPlayer => NetShown(scores, selected) = GrossShown(scores)
  /\ selected # NoPlayer =>
       NetShown(scores, selected) = GrossShown(scores) - selected.handicap

C3_Witness ==
  /\ selected # NoPlayer
  /\ selected.handicap > getGross(scores)
  /\ getGross(scores) > 0
  /\ NetShown(scores, selected) < 0

\* The sum of the scores at the holes from a to b, hole by hole.
RECURSIVE Total(_, _, _)
Total(s, a, b) == IF a > b THEN 0 ELSE s[a] + Total(s, a + 1, b)

OnlyHoleChanged(i) ==
  /\ scores'[i] # scores[i]
  /\ \A j \in Holes \ {i} : scores'[j] = scores[j]

C5_EighteenHoles ==
  /\ Len(values.grossHoles) = 18
  /\ \A m \in DOMAIN mutations : Len(mutations[m].variables.grossHoles) = 18

C5_Witness ==
  /\ holesQuery.count = 19
  /\ mutations # <<>>
  /\ opened

\* C6: every hole score present in the form, and every element of grossHoles
\* in a create-round request, is an integer from 1 to 99.
C6_ScoreRange ==
  /\ \A i \in DOMAIN values.grossHoles :
       \/ values.grossHoles[i].score = EmptyString
       \/ values.grossHoles[i].score[1] \in 1..99
  /\ \A m \in DOMAIN mutations :
       \A i \in DOMAIN mutations[m].variables.grossHoles :
         mutations[m].variables.grossHoles[i] \in 1..99

C6_Witness ==
  \E m \in DOMAIN mutations :
    /\ \E i \in Holes : mutations[m].variables.grossHoles[i] = 99
    /\ \E i \in Holes : mutations[m].variables.grossHoles[i] = 1

\* C7: at most one create-round request is issued for the same entered round.
C7_SentOnce ==
  \A m, n \in DOMAIN mutations :
    m # n => mutations[m].variables # mutations[n].variables

Failure == [kind |-> "failure", message |-> "Failed to save round", updates |-> 1]

Fails(m) ==
  /\ mutations[m].status = "pending"
  /\ mutations'[m].status # "pending"
  /\ mutations'[m].response # "true"

Saved(m) ==
  /\ mutations[m].status = "pending"
  /\ mutations'[m].status = "success"
  /\ mutations'[m].response = "true"
  /\ notifications'[mutations[m].notification] =
       [kind |-> "success", message |-> "Saved round", updates |-> 1]

Loaded == IF playersQuery.status = "success" THEN playersQuery.data ELSE {}

\* C10: when validation passes but the selected playerId matches no player of
\* the loaded list, a submit issues no request, opens no notification, sets
\* the playerId error to 'Selected player no longer exists' and leaves the
\* values unchanged.
C10_PlayerGone ==
  [][ ( /\ Submit
        /\ values.playerId # NullId
        /\ Positive(values)
        /\ ~\E p \in Loaded : toString(p.id) = values.playerId )
      => /\ mutations' = mutations
         /\ notifications' = notifications
         /\ errors'.playerId = "Selected player no longer exists"
         /\ values' = values ]_vars

C10_Witness ==
  /\ errors.playerId = "Selected player no longer exists"
  /\ Positive(values)
  /\ values.day # today
  /\ playersQuery.status = "success"
  /\ playersQuery.data # {}
  /\ mutations = <<>>

====
